---- MODULE Spec2Model ----
(***************************************************************************)
(* The AlignLoads pass (AlignLoads.cpp): an IRMutator that rewrites vector *)
(* loads into aligned native-width loads plus concat_vectors and           *)
(* shuffle_vector, tracking let-bound alignment facts in a Scope and the   *)
(* required alignment through device loops.                                *)
(*                                                                         *)
(* Two specifications share the state:                                     *)
(*   Spec      the traversal of a statement (Let/LetStmt, For, Load);      *)
(*   LoadSpec  the visit of a Load applied to every load shape under       *)
(*             every alignment context of one enclosing let.               *)
(***************************************************************************)
EXTENDS Integers, Sequences, FiniteSets, TLC

\* ---------------------------------------------------------------- bounds

\* Deepest nesting of Let/LetStmt/For nodes in the traversed statement.
MaxDepth == 2
\* Largest lane count of an input load.
MaxLanes == 9
\* Largest constant offset in the base of an input ramp.
MaxOff == 3

\* ------------------------------------------------------ program constants

\* required_alignment inside a Hexagon loop, by HVX mode.
HVX_128_alignment == 128
HVX_64_alignment == 64

\* Target::natural_vector_size(Int(8)) of the targets modelled.
NaturalVectorSizes == {16, 32}
\* Type::bytes() of the element types modelled (32-bit and 64-bit elements).
ElemBytes == {4, 8}
\* The two HVX mode flags of the target.
HVXFeatures == {"HVX_64", "HVX_128"}
DeviceAPIs == {"Host", "Hexagon"}
\* Names bound by lets; "k" is a free variable no let binds.
Names == {"x", "y"}
\* Types of a let's bound value.
ValueTypes == {"Int32", "Int16", "Float32"}

VARIABLES
    target,               \* AlignLoads::target, the set of HVX flags it has
    natural_vector_size,  \* the vs argument of the constructor
    required_alignment,   \* AlignLoads::required_alignment
    alignment_info,       \* AlignLoads::alignment_info: name -> stack of summaries
    stack,                \* the visits of Let/For nodes in progress, outermost first
    pc,                   \* "run", "done", "unwind", "error", "abort", "fault"
    op,                   \* the Load last visited (NoExpr when none)
    expr,                 \* IRMutator::expr after that visit
    expr2,                \* the pass applied to expr once more (NoExpr when not yet)
    null_deref            \* what a null dereference does in this build (UBOutcomes)

vars == <<target, natural_vector_size, required_alignment, alignment_info,
          stack, pc, op, expr, expr2, null_deref>>

\* ------------------------------------------------- integer expressions

\* mul*var + off; var = "" is the literal off. simplify() keeps this form,
\* so every expression here is already in the simplifier's canonical form.
IntExpr(var, mul, off) == [var |-> var, mul |-> mul, off |-> off]
Lit(c) == IntExpr("", 0, c)
AddConst(e, c) == [e EXCEPT !.off = @ + c]

NoInfo == [m |-> 1, r |-> 0]

\* Scope<ModulusRemainder>: one stack of summaries per name.
EmptyScope == [n \in Names |-> <<>>]
ScopeContains(scope, n) == n \in Names /\ Len(scope[n]) > 0
ScopeGet(scope, n) == scope[n][Len(scope[n])]
ScopePush(scope, n, v) == [scope EXCEPT ![n] = Append(@, v)]
ScopePop(scope, n) == [scope EXCEPT ![n] = SubSeq(@, 1, Len(@) - 1)]

\* modulus_remainder(e, scope): a literal is (0, c); a name in scope has its
\* recorded summary, any other name (1, 0); c*e scales both; e + c shifts the
\* remainder, reduced modulo the modulus.
modulus_remainder(e, scope) ==
    IF e.var = ""
    THEN [m |-> 0, r |-> e.off]
    ELSE LET v == IF ScopeContains(scope, e.var) THEN ScopeGet(scope, e.var) ELSE NoInfo
             m == v.m * e.mul
             r == v.r * e.mul + e.off
         IN [m |-> m, r |-> IF m = 0 THEN r ELSE r % m]

\* reduce_expr_modulo(e, modulus, &remainder, scope): known when the
\* summary's modulus is a multiple of `modulus`; the remainder is then
\* ((r mod modulus) + modulus) mod modulus.
reduce_expr_modulo(e, modulus, scope) ==
    LET s == modulus_remainder(e, scope)
    IN IF s.m % modulus = 0
       THEN [known |-> TRUE, lanes_off |-> s.r % modulus]
       ELSE [known |-> FALSE, lanes_off |-> 0]

\* ------------------------------------------------------------- the IR

NoBase == Lit(0)
NoExpr == [node |-> "none", lanes |-> 0, bytes |-> 0, image |-> FALSE, param |-> 0,
           ramp |-> FALSE, lit |-> FALSE, base |-> NoBase, stride |-> 0,
           args |-> <<>>, indices |-> <<>>]
\* The process died on a null dereference inside the visit.
Fault == [NoExpr EXCEPT !.node = "fault"]

\* Load(type, name, index, image, param). lanes/bytes: the type; image: the
\* image handle is defined; param: 0 when undefined, else host_alignment();
\* ramp: the index is a Ramp(base, stride, lanes); lit: its stride is an IntImm.
Load(lanes, bytes, image, param, ramp, lit, base, stride) ==
    [NoExpr EXCEPT !.node = "Load", !.lanes = lanes, !.bytes = bytes, !.image = image,
                   !.param = param, !.ramp = ramp, !.lit = lit, !.base = base,
                   !.stride = stride]
\* Call(type, concat_vectors, args)
concat_vectors(lanes, bytes, args) ==
    [NoExpr EXCEPT !.node = "concat_vectors", !.lanes = lanes, !.bytes = bytes,
                   !.args = args]
\* Call(type, shuffle_vector, {vec, i0, i1, ...})
shuffle_vector(lanes, bytes, vec, indices) ==
    [NoExpr EXCEPT !.node = "shuffle_vector", !.lanes = lanes, !.bytes = bytes,
                   !.args = <<vec>>, !.indices = indices]

\* The same load with another lane count and ramp base (op->type.with_lanes,
\* Ramp::make(base, ramp->stride, lanes), op->image, op->param).
LoadLike(load, lanes, base, stride) ==
    [load EXCEPT !.lanes = lanes, !.base = base, !.stride = stride]

RECURSIVE Flatten(_)
Flatten(ss) == IF ss = <<>> THEN <<>> ELSE Head(ss) \o Flatten(Tail(ss))

\* The element of the buffer each lane of e holds, as an index expression
\* (two lanes hold the same value for every buffer content exactly when they
\* read the same element). Lane j of Ramp(base, stride, n) is base + j*stride;
\* concat_vectors concatenates; lane j of shuffle_vector(v, i...) is lane i_j
\* of v. A lane outside the source vector, or of an index that is no literal
\* ramp, has no element: Undef.
Undef == IntExpr("undef", 0, 0)
RECURSIVE LaneElems(_)
LaneElems(e) ==
    CASE e.node = "Load" ->
            [j \in 1..e.lanes |->
                IF e.ramp /\ e.lit THEN AddConst(e.base, (j - 1) * e.stride) ELSE Undef]
      [] e.node = "concat_vectors" ->
            Flatten([i \in 1..Len(e.args) |-> LaneElems(e.args[i])])
      [] e.node = "shuffle_vector" ->
            LET src == LaneElems(e.args[1])
            IN [j \in 1..Len(e.indices) |->
                  IF e.indices[j] >= 0 /\ e.indices[j] < Len(src)
                  THEN src[e.indices[j] + 1] ELSE Undef]
      [] OTHER -> <<>>

\* Every Load node of e, left to right.
RECURSIVE LoadsOf(_)
LoadsOf(e) ==
    CASE e.node = "Load" -> <<e>>
      [] e.node \in {"concat_vectors", "shuffle_vector"} ->
            Flatten([i \in 1..Len(e.args) |-> LoadsOf(e.args[i])])
      [] OTHER -> <<>>

\* ------------------------------------------------- the load rewriter

\* op->type.is_vector()
is_vector(load) == load.lanes > 1

\* bool external = op->image.defined()
\* Faulty variant: the external test dropped.
external_dropped(load) == FALSE
external(load) == load.image

\* natural_vector_lanes(t): required_alignment / t.bytes()
natural_vector_lanes(bytes, ra) == ra \div bytes

\* Faulty variant: the concatenation is typed with vec_a's lanes, not twice.
concat_and_shuffle_single_width(vec_a, vec_b, indices) ==
    shuffle_vector(vec_a.lanes, vec_a.bytes,
                   concat_vectors(vec_a.lanes, vec_a.bytes, <<vec_a, vec_b>>),
                   indices)

\* concat_and_shuffle(vec_a, vec_b, indices): the concatenation is typed with
\* twice vec_a's lanes, the shuffle with vec_a's type.
concat_and_shuffle(vec_a, vec_b, indices) ==
    shuffle_vector(vec_a.lanes, vec_a.bytes,
                   concat_vectors(vec_a.lanes * 2, vec_a.bytes, <<vec_a, vec_b>>),
                   indices)

\* concat_and_shuffle(vec_a, vec_b, start, size): indices start .. start+size-1
concat_and_shuffle_range(vec_a, vec_b, start, size) ==
    concat_and_shuffle(vec_a, vec_b, [i \in 1..size |-> start + i - 1])

\* Faulty variant: the alignment of the buffer's start is not looked at.
get_alignment_check_no_host_check(base, host_alignment, bytes, ra, scope) ==
    reduce_expr_modulo(base, ra \div bytes, scope)

\* get_alignment_check(ramp, host_alignment, t, &lanes_off)
get_alignment_check(base, host_alignment, bytes, ra, scope) ==
    IF host_alignment % ra # 0
    THEN [known |-> FALSE, lanes_off |-> 0]
    ELSE reduce_expr_modulo(base, ra \div bytes, scope)

\* op->param.defined() ? op->param.host_alignment() : required_alignment
base_alignment(load, ra) == IF load.param # 0 THEN load.param ELSE ra

\* Faulty variant: stride 3 is taken for a handled stride.
NarrowUnsupported_above_3(stride) == stride > 3

\* The narrow case's test of the stride: strides above 2 are not handled.
NarrowUnsupported(stride) == stride > 2

\* Faulty variant: the widened ramp is dense, the stride is not carried over.
Widened_unit_stride(load, native_lanes) == LoadLike(load, native_lanes, load.base, 1)

\* The native-width load of the narrow case.
Widened(load, native_lanes) == LoadLike(load, native_lanes, load.base, load.stride)

\* Faulty variant: one native vector is cut off the front and the rest is
\* left as one slice, to be cut again when the concatenation is re-entered.
Slices_peel_first(load, native_lanes) ==
    <<LoadLike(load, native_lanes, load.base, load.stride),
      LoadLike(load, load.lanes - native_lanes,
               AddConst(load.base, native_lanes), load.stride)>>

\* The slices of the oversized case: i = 0, native_lanes, ... while i < lanes.
Slices(load, native_lanes) ==
    LET n == (load.lanes + native_lanes - 1) \div native_lanes
    IN [k \in 1..n |->
          LET i == (k - 1) * native_lanes
              slice_lanes == IF native_lanes < load.lanes - i
                             THEN native_lanes ELSE load.lanes - i
          IN LoadLike(load, slice_lanes, AddConst(load.base, i), load.stride)]

\* Faulty variant: base_low is the base itself, lanes_off is not subtracted.
DenseRewrite_unshifted(load, lanes_off) ==
    LET lanes == load.lanes
        base_low == load.base
        load_low == LoadLike(load, lanes, base_low, 1)
        load_high == LoadLike(load, lanes, AddConst(base_low, lanes), 1)
    IN concat_and_shuffle_range(load_low, load_high, lanes_off, lanes)

\* Faulty variant: ramp_high starts at base + lanes, not base_low + lanes.
DenseRewrite_high_from_base(load, lanes_off) ==
    LET lanes == load.lanes
        base_low == AddConst(load.base, -lanes_off)
        load_low == LoadLike(load, lanes, base_low, 1)
        load_high == LoadLike(load, lanes, AddConst(load.base, lanes), 1)
    IN concat_and_shuffle_range(load_low, load_high, lanes_off, lanes)

\* The dense unit-stride rewrite for a known non-zero lanes_off.
DenseRewrite(load, lanes_off) ==
    LET lanes == load.lanes
        base_low == AddConst(load.base, -lanes_off)
        load_low == LoadLike(load, lanes, base_low, 1)
        load_high == LoadLike(load, lanes, AddConst(base_low, lanes), 1)
    IN concat_and_shuffle_range(load_low, load_high, lanes_off, lanes)

\* Faulty variant: base_b is never shifted.
Stride2Bases_unshifted(load, scope, ra) ==
    [base_a |-> load.base, base_b |-> AddConst(load.base, load.lanes), b_shift |-> 0]

\* The stride-2 case's two bases and the shift of base_b.
Stride2Bases(load, scope, ra) ==
    LET chk == get_alignment_check(load.base, load.param, load.bytes, ra, scope)
        shift == load.param # 0 /\ (~chk.known \/ chk.lanes_off # 0)
        b_shift == IF shift THEN 1 ELSE 0
    IN [base_a |-> load.base,
        base_b |-> AddConst(load.base, load.lanes - b_shift),
        b_shift |-> b_shift]

\* Faulty variant: the second half ignores b_shift.
Stride2Indices_no_shift(lanes, b_shift) ==
    [i \in 1..lanes |-> (i - 1) * 2]

\* The stride-2 case's shuffle indices.
Stride2Indices(lanes, b_shift) ==
    [i \in 1..lanes |->
        IF i - 1 < lanes \div 2 THEN (i - 1) * 2 ELSE (i - 1) * 2 + b_shift]

\* What a dereference of a null pointer (ramp->lanes with no Ramp index,
\* stride->value with no IntImm stride) can do in a build: the process
\* faults, or the read yields some value and the visit goes on: "high" falls
\* to the branch that returns the load, "low" takes the branch of a small
\* value.
UBOutcomes == {"fault", "high", "low"}

RECURSIVE mutate(_, _, _, _)
RECURSIVE visit_Load(_, _, _, _)
RECURSIVE visit_Call(_, _, _, _)

\* IRMutator::visit(const Call *): the arguments are mutated in order.
visit_Call(e, scope, ra, ub) ==
    LET a == [i \in 1..Len(e.args) |-> mutate(e.args[i], scope, ra, ub)]
    IN IF \E i \in 1..Len(a) : a[i].node = "fault" THEN Fault
       ELSE [e EXCEPT !.args = a]

\* AlignLoads::visit(const Load *op). The index of a load holds no load of its
\* own here, so mutate(op->index) is op->index.
visit_Load(load, scope, ra, ub) ==
    IF is_vector(load)
    THEN IF external(load) THEN load
         ELSE IF ~load.ramp
         THEN (IF ub = "fault" THEN Fault ELSE load)
         ELSE LET native_lanes == natural_vector_lanes(load.bytes, ra)
              IN IF load.lanes < native_lanes
                 THEN IF ~load.lit /\ ub = "fault" THEN Fault
                      ELSE IF (~load.lit /\ ub = "high")
                              \/ (load.lit /\ NarrowUnsupported(load.stride))
                      THEN load
                      ELSE LET vec == mutate(Widened(load, native_lanes), scope, ra, ub)
                           IN IF vec.node = "fault" THEN Fault
                              ELSE shuffle_vector(load.lanes, load.bytes, vec,
                                                  [i \in 1..load.lanes |-> i - 1])
                 ELSE IF load.lanes > native_lanes
                 THEN mutate(concat_vectors(load.lanes, load.bytes,
                                            Slices(load, native_lanes)), scope, ra, ub)
                 ELSE IF load.lit /\ load.stride = 1
                 THEN LET chk == get_alignment_check(load.base, base_alignment(load, ra),
                                                     load.bytes, ra, scope)
                      IN IF chk.known /\ chk.lanes_off # 0
                         THEN DenseRewrite(load, chk.lanes_off)
                         ELSE load
                 ELSE IF load.lit /\ load.stride = 2
                 THEN LET b == Stride2Bases(load, scope, ra)
                          lanes == load.lanes
                          vec_a == mutate(LoadLike(load, lanes, b.base_a, 1), scope, ra, ub)
                          vec_b == mutate(LoadLike(load, lanes, b.base_b, 1), scope, ra, ub)
                      IN concat_and_shuffle(vec_a, vec_b, Stride2Indices(lanes, b.b_shift))
                 ELSE load
    ELSE load

\* IRMutator::mutate: dispatch on the node kind.
mutate(e, scope, ra, ub) ==
    CASE e.node = "Load" -> visit_Load(e, scope, ra, ub)
      [] e.node \in {"concat_vectors", "shuffle_vector"} -> visit_Call(e, scope, ra, ub)
      [] OTHER -> e

\* The nodes the visit of a Load hands to mutate again: the widened load of
\* the narrow case, the concatenation of the slices of the oversized case,
\* the two dense loads of the stride-2 case; none in every other case.
Reentries(load, scope, ra, ub) ==
    IF ~is_vector(load) \/ external(load) \/ ~load.ramp THEN <<>>
    ELSE LET native_lanes == natural_vector_lanes(load.bytes, ra)
         IN IF load.lanes < native_lanes
            THEN IF (~load.lit /\ ub # "low")
                    \/ (load.lit /\ NarrowUnsupported(load.stride))
                 THEN <<>>
                 ELSE <<Widened(load, native_lanes)>>
            ELSE IF load.lanes > native_lanes
            THEN <<concat_vectors(load.lanes, load.bytes, Slices(load, native_lanes))>>
            ELSE IF load.lit /\ load.stride = 2
            THEN LET b == Stride2Bases(load, scope, ra)
                 IN <<LoadLike(load, load.lanes, b.base_a, 1),
                      LoadLike(load, load.lanes, b.base_b, 1)>>
            ELSE <<>>

RECURSIVE MaxOf(_)
MaxOf(ns) == IF ns = <<>> THEN 0
             ELSE LET m == MaxOf(Tail(ns)) IN IF Head(ns) > m THEN Head(ns) ELSE m

\* The depth of the calls of mutate nested in mutate(e), this call included,
\* followed for at most `fuel` levels below it: the depth itself when that is
\* at most fuel + 1, and fuel + 1 when the recursion goes deeper.
RECURSIVE mutate_depth(_, _, _, _, _)
mutate_depth(e, scope, ra, ub, fuel) ==
    LET again == CASE e.node = "Load" -> Reentries(e, scope, ra, ub)
                   [] e.node \in {"concat_vectors", "shuffle_vector"} -> e.args
                   [] OTHER -> <<>>
    IN IF fuel = 0 THEN 1
       ELSE 1 + MaxOf([i \in 1..Len(again) |->
                          mutate_depth(again[i], scope, ra, ub, fuel - 1)])

\* ------------------------------------------------------------ inputs

\* param.host_alignment() of the params modelled.
HostAlignments == {8, 32}
\* <<image defined, param (0: undefined)>> of a load's buffer.
Buffers == {<<FALSE, 0>>, <<TRUE, 0>>} \cup {<<i, a>> : i \in BOOLEAN, a \in HostAlignments}
\* Literal strides of input ramps.
Strides == -1..3
\* Bases of input ramps: a literal, or the name x plus a literal.
Bases == {IntExpr(v, IF v = "" THEN 0 ELSE 1, c) : v \in {"", "x"}, c \in 0..MaxOff}

\* Loads indexed by a ramp with a literal stride.
RampLoads ==
    {Load(l, b, buf[1], buf[2], TRUE, TRUE, base, s) :
        l \in 1..MaxLanes, b \in ElemBytes, buf \in Buffers, base \in Bases, s \in Strides}
\* Loads indexed by a ramp whose stride is no literal.
SymStrideLoads ==
    {Load(l, b, buf[1], buf[2], TRUE, FALSE, base, 0) :
        l \in 1..MaxLanes, b \in ElemBytes, buf \in Buffers, base \in Bases}
\* Loads whose index is no ramp.
OtherIndexLoads ==
    {Load(l, b, buf[1], buf[2], FALSE, FALSE, NoBase, 0) :
        l \in 1..MaxLanes, b \in ElemBytes, buf \in Buffers}
Loads == RampLoads \cup SymStrideLoads \cup OtherIndexLoads

\* The loads a traversed statement holds: dense 4-lane loads of 32-bit
\* elements of an internal buffer at x and x+3.
ProbeLoads ==
    {Load(4, 4, FALSE, 0, TRUE, TRUE, IntExpr("x", 1, c), 1) : c \in {0, 3}}

\* Values bound by lets: 32*k, 6*k+2, 5, x+1.
LetValues == {IntExpr("k", 32, 0), IntExpr("k", 6, 2), Lit(5), IntExpr("x", 1, 1)}
\* <<type, value>> of a let: every value at Int(32), one at the other types.
LetInputs == {<<"Int32", v>> : v \in LetValues}
             \cup {<<t, IntExpr("k", 32, 0)>> : t \in ValueTypes \ {"Int32"}}

\* ------------------------------------------------------------ the state

\* A visit_let in progress: op->name, the type of op->value, op->value, the
\* summary of op->value taken on entry, and whether mutate(op->value) or
\* mutate(op->body) is running.
LetFrame(name, vtype, value, mr, phase) ==
    [kind |-> "Let", name |-> name, vtype |-> vtype, value |-> value, mr |-> mr,
     phase |-> phase, api |-> "", saved |-> 0]
\* A visit of a For in progress: op->device_api and saved_required_alignment.
ForFrame(api, saved) ==
    [kind |-> "For", name |-> "", vtype |-> "", value |-> NoBase, mr |-> NoInfo,
     phase |-> "body", api |-> api, saved |-> saved]

Top == stack[Len(stack)]
Pop(s) == SubSeq(s, 1, Len(s) - 1)
\* No visit in progress is inside the bound value of a let (an expression).
InStmt == \A i \in 1..Len(stack) : stack[i].phase = "body"

\* AlignLoads(t, t.natural_vector_size(Int(8))) as align_loads constructs it.
Init ==
    /\ target \in SUBSET HVXFeatures
    /\ natural_vector_size \in NaturalVectorSizes
    /\ required_alignment = natural_vector_size
    /\ alignment_info = EmptyScope
    /\ stack = <<>>
    /\ pc = "run"
    /\ op = NoExpr
    /\ expr = NoExpr
    /\ expr2 = NoExpr
    \* The loads of a traversed statement (ProbeLoads) have literal ramps: no
    \* visit dereferences a null pointer, whatever the build does with one.
    /\ null_deref = "fault"

\* Faulty variant: the summary is pushed whatever the type of the value.
LetEnter_push_all(name, vtype, value) ==
    /\ pc = "run"
    /\ Len(stack) < MaxDepth
    /\ LET mr == IF vtype = "Float32" THEN NoInfo
                 ELSE modulus_remainder(value, alignment_info)
       IN /\ alignment_info' = ScopePush(alignment_info, name, mr)
          /\ stack' = Append(stack, LetFrame(name, vtype, value, mr, "value"))
    /\ op' = NoExpr /\ expr' = NoExpr /\ expr2' = NoExpr
    /\ UNCHANGED <<null_deref, target, natural_vector_size, required_alignment, pc>>

\* visit_let, up to the start of mutate(op->value): the summary of the value
\* is pushed under the let's name when the value's type is Int(32). Let and
\* LetStmt share this template.
LetEnter(name, vtype, value) ==
    /\ pc = "run"
    /\ Len(stack) < MaxDepth
    /\ LET mr == IF vtype = "Float32" THEN NoInfo
                 ELSE modulus_remainder(value, alignment_info)
       IN /\ alignment_info' = IF vtype = "Int32"
                               THEN ScopePush(alignment_info, name, mr)
                               ELSE alignment_info
          /\ stack' = Append(stack, LetFrame(name, vtype, value, mr, "value"))
    /\ op' = NoExpr /\ expr' = NoExpr /\ expr2' = NoExpr
    /\ UNCHANGED <<null_deref, target, natural_vector_size, required_alignment, pc>>

\* visit_let: mutate(op->value) has returned, mutate(op->body) starts.
LetBody ==
    /\ pc = "run"
    /\ stack # <<>> /\ Top.kind = "Let" /\ Top.phase = "value"
    /\ stack' = [stack EXCEPT ![Len(stack)].phase = "body"]
    /\ op' = NoExpr /\ expr' = NoExpr /\ expr2' = NoExpr
    /\ UNCHANGED <<null_deref, target, natural_vector_size, required_alignment, alignment_info, pc>>

\* Faulty variant: the name is not popped.
LetExit_no_pop ==
    /\ pc = "run"
    /\ stack # <<>> /\ Top.kind = "Let" /\ Top.phase = "body"
    /\ stack' = Pop(stack)
    /\ op' = NoExpr /\ expr' = NoExpr /\ expr2' = NoExpr
    /\ UNCHANGED <<null_deref, target, natural_vector_size, required_alignment,
                   alignment_info, pc>>

\* visit_let: mutate(op->body) has returned; the name is popped when the
\* value's type is Int(32), and the let is rebuilt.
LetExit ==
    /\ pc = "run"
    /\ stack # <<>> /\ Top.kind = "Let" /\ Top.phase = "body"
    /\ alignment_info' = IF Top.vtype = "Int32"
                         THEN ScopePop(alignment_info, Top.name)
                         ELSE alignment_info
    /\ stack' = Pop(stack)
    /\ op' = NoExpr /\ expr' = NoExpr /\ expr2' = NoExpr
    /\ UNCHANGED <<null_deref, target, natural_vector_size, required_alignment, pc>>

\* The required alignment a Hexagon loop sets for this target.
HexagonAlignment ==
    IF "HVX_128" \in target THEN HVX_128_alignment ELSE HVX_64_alignment

\* visit(const For *), up to the start of IRMutator::visit(op): the required
\* alignment is saved and, in a Hexagon loop, set by the HVX mode;
\* internal_error with neither mode either throws (the exception unwinds the
\* visits in progress) or aborts the process, as the build has it.
ForEnter(api) ==
    /\ pc = "run"
    /\ Len(stack) < MaxDepth
    /\ InStmt
    /\ stack' = Append(stack, ForFrame(api, required_alignment))
    /\ \/ /\ api # "Hexagon"
          /\ UNCHANGED <<required_alignment, pc>>
       \/ /\ api = "Hexagon" /\ target # {}
          /\ required_alignment' = HexagonAlignment
          /\ UNCHANGED pc
       \/ /\ api = "Hexagon" /\ target = {}
          /\ pc' \in {"unwind", "abort"}
          /\ UNCHANGED required_alignment
    /\ op' = NoExpr /\ expr' = NoExpr /\ expr2' = NoExpr
    /\ UNCHANGED <<null_deref, target, natural_vector_size, alignment_info>>

\* Faulty variant: the saved required alignment is not restored.
ForExit_no_restore ==
    /\ pc = "run"
    /\ stack # <<>> /\ Top.kind = "For"
    /\ stack' = Pop(stack)
    /\ op' = NoExpr /\ expr' = NoExpr /\ expr2' = NoExpr
    /\ UNCHANGED <<null_deref, target, natural_vector_size, required_alignment,
                   alignment_info, pc>>

\* visit(const For *): IRMutator::visit(op) has returned; the saved required
\* alignment is restored.
ForExit ==
    /\ pc = "run"
    /\ stack # <<>> /\ Top.kind = "For"
    /\ required_alignment' = Top.saved
    /\ stack' = Pop(stack)
    /\ op' = NoExpr /\ expr' = NoExpr /\ expr2' = NoExpr
    /\ UNCHANGED <<null_deref, target, natural_vector_size, alignment_info, pc>>

\* The exception of internal_error leaves one visit in progress: nothing
\* after the visit's call of mutate runs. With no visit left it reaches the
\* caller of align_loads.
Unwind ==
    /\ pc = "unwind"
    /\ IF stack = <<>>
       THEN pc' = "error" /\ UNCHANGED stack
       ELSE stack' = Pop(stack) /\ UNCHANGED pc
    /\ UNCHANGED <<null_deref, target, natural_vector_size, required_alignment, alignment_info,
                   op, expr, expr2>>

\* mutate(s) returns to align_loads.
Finish ==
    /\ pc = "run"
    /\ stack = <<>>
    /\ pc' = "done"
    /\ op' = NoExpr /\ expr' = NoExpr /\ expr2' = NoExpr
    /\ UNCHANGED <<null_deref, target, natural_vector_size, required_alignment, alignment_info, stack>>

\* The visit of one Load of the statement at the current position.
VisitLoad(load) ==
    /\ pc = "run"
    /\ op' = load
    /\ expr' = mutate(load, alignment_info, required_alignment, null_deref)
    /\ expr2' = NoExpr
    /\ pc' = IF expr'.node = "fault" THEN "fault" ELSE pc
    /\ UNCHANGED <<null_deref, target, natural_vector_size, required_alignment, alignment_info, stack>>

\* The pass run again on its own output, at the same position.
Rerun ==
    /\ pc = "run"
    /\ op # NoExpr
    /\ expr2 = NoExpr
    /\ expr2' = mutate(expr, alignment_info, required_alignment, null_deref)
    /\ UNCHANGED <<null_deref, target, natural_vector_size, required_alignment, alignment_info,
                   stack, pc, op, expr>>

Next ==
    \/ \E n \in Names, i \in LetInputs : LetEnter(n, i[1], i[2])
    \/ LetBody
    \/ LetExit
    \/ \E a \in DeviceAPIs : ForEnter(a)
    \/ ForExit
    \/ Unwind
    \/ Finish
    \/ \E l \in ProbeLoads : VisitLoad(l)

Spec == Init /\ [][Next]_vars

\* One let of x, bound to each value, around the load (or no let at all).
LoadInit ==
    /\ target = {}
    /\ natural_vector_size \in NaturalVectorSizes
    /\ required_alignment = natural_vector_size
    /\ \/ alignment_info = EmptyScope /\ stack = <<>>
       \/ \E v \in LetValues :
            LET mr == modulus_remainder(v, EmptyScope)
            IN /\ alignment_info = ScopePush(EmptyScope, "x", mr)
               /\ stack = <<LetFrame("x", "Int32", v, mr, "body")>>
    /\ pc = "run"
    /\ op = NoExpr
    /\ expr = NoExpr
    /\ expr2 = NoExpr
    /\ null_deref \in UBOutcomes

\* One load is visited, then the pass is run again on the result.
LoadNext ==
    \/ op = NoExpr /\ \E l \in Loads : VisitLoad(l)
    \/ Rerun

LoadSpec == LoadInit /\ [][LoadNext]_vars

\* ------------------------------------------------------- properties

\* The natural lane count of the visited load's element type.
N == natural_vector_lanes(op.bytes, required_alignment)
\* A vector load of a non-external buffer indexed by a ramp of literal stride
\* has been visited.
RampLoadVisited ==
    op.node = "Load" /\ op.lanes > 1 /\ ~op.image /\ op.ramp /\ op.lit
\* The Alignment Oracle on base for the buffer of ld: unknown when the
\* buffer's alignment is no multiple of required_alignment.
Oracle(ld, base) ==
    LET a == IF ld.param # 0 THEN ld.param ELSE required_alignment
    IN IF a % required_alignment # 0
       THEN [known |-> FALSE, lanes_off |-> 0]
       ELSE reduce_expr_modulo(base, required_alignment \div ld.bytes, alignment_info)
\* The dense native-width loads of the output that the pass constructed.
SynthesizedDenseLoads ==
    IF expr = op THEN {}
    ELSE LET loads == LoadsOf(expr)
         IN {ld \in {loads[i] : i \in 1..Len(loads)} :
               /\ ~ld.image /\ ld.ramp /\ ld.lit /\ ld.stride = 1
               /\ ld.lanes = natural_vector_lanes(ld.bytes, required_alignment)}

\* C1: for every vector load of a non-external buffer indexed by
\* Ramp(base, s, V) with literal s, the rewritten expression has V lanes and
\* its lane j holds element base + j*s of the buffer, as the input load does.
C1_SemanticPreservation ==
    RampLoadVisited =>
        /\ expr.lanes = op.lanes
        /\ LaneElems(expr) = [j \in 1..op.lanes |-> AddConst(op.base, (j - 1) * op.stride)]

\* C2 as stated: every dense native-width load the pass constructed has a
\* base the oracle knows to be aligned (known, lanes_off = 0).
C2_SynthesizedLoadsAligned ==
    \A ld \in SynthesizedDenseLoads :
        Oracle(ld, ld.base).known /\ Oracle(ld, ld.base).lanes_off = 0

\* C2 as amended: no dense native-width load the pass constructed has a base
\* the oracle knows to be misaligned: the oracle returns unknown or
\* lanes_off = 0 on it.
C2_SynthesizedLoadsNotMisaligned ==
    \A ld \in SynthesizedDenseLoads :
        ~(Oracle(ld, ld.base).known /\ Oracle(ld, ld.base).lanes_off # 0)

\* A misaligned dense load was split into two loads, both known aligned.
C2_Witness ==
    /\ RampLoadVisited /\ op.stride = 1 /\ op.lanes = N
    /\ Oracle(op, op.base).known /\ Oracle(op, op.base).lanes_off # 0
    /\ Cardinality(SynthesizedDenseLoads) = 2
    /\ \A ld \in SynthesizedDenseLoads : Oracle(ld, ld.base).lanes_off = 0

\* A native-width stride-2 load was rewritten and the oracle does not know
\* its ramp to be aligned.
Stride2Unaligned ==
    /\ RampLoadVisited /\ op.stride = 2 /\ op.lanes = N /\ expr # op
    /\ (~Oracle(op, op.base).known \/ Oracle(op, op.base).lanes_off # 0)
\* The largest element index read by the N-lane dense loads at base_a and
\* base_b is at most base + 2(N-1), the largest index of the original load.
NoOverRead ==
    LET b == Stride2Bases(op, alignment_info, required_alignment)
    IN /\ b.base_a.off + (N - 1) <= op.base.off + 2 * (N - 1)
       /\ b.base_b.off + (N - 1) <= op.base.off + 2 * (N - 1)

\* C3 as stated: no over-read for a stride-2 load of an internal buffer or
\* of a buffer with a param, whenever the oracle returns unknown or a
\* non-zero lanes_off on the original ramp.
C3_NoOverRead == Stride2Unaligned => NoOverRead

\* C3 as amended: the same for a load of a buffer with a param.
C3_NoOverReadWithParam == (Stride2Unaligned /\ op.param # 0) => NoOverRead

\* A stride-2 load of a param buffer with base_b shifted: the second half of
\* the shuffle picks odd lanes of the concatenation.
C3_Witness ==
    /\ Stride2Unaligned /\ op.param # 0
    /\ Stride2Bases(op, alignment_info, required_alignment).base_b = AddConst(op.base, N - 1)
    /\ expr.node = "shuffle_vector" /\ expr.indices[N] = 2 * (N - 1) + 1

\* The Int(32)-valued lets being traversed, outermost first, as a scope.
RECURSIVE ScopeOf(_)
ScopeOf(frames) ==
    IF frames = <<>> THEN EmptyScope
    ELSE LET f == frames[Len(frames)]
             below == ScopeOf(Pop(frames))
         IN IF f.kind = "Let" /\ f.vtype = "Int32"
            THEN ScopePush(below, f.name, f.mr) ELSE below

\* C4: at every point of a traversal of nested lets the Alignment Context
\* holds exactly the Int(32)-valued lets being traversed, and it is empty
\* when the rewrite returns normally.
C4_ContextBalance ==
    /\ pc \in {"run", "done"} => alignment_info = ScopeOf(stack)
    /\ pc = "done" => alignment_info = EmptyScope

\* Two nested lets of the same name, both recorded, inside the inner body.
C4_Witness ==
    /\ pc = "run" /\ Len(stack) = 2
    /\ \A i \in 1..2 : stack[i].kind = "Let" /\ stack[i].name = "x" /\ stack[i].vtype = "Int32"
    /\ stack[2].phase = "body"
    /\ stack[1].mr # stack[2].mr
    /\ alignment_info["x"] = <<stack[1].mr, stack[2].mr>>

\* C5: the pass applied to its own output, under the same alignment context
\* and required alignment, returns that output.
C5_Idempotence == expr2 # NoExpr => expr2 = expr

\* A rewritten load (a shuffle or a concatenation) went through the pass again.
C5_Witness ==
    /\ op.node = "Load" /\ expr # op /\ expr2 = expr
    /\ Len(LoadsOf(expr)) >= 2

\* C6: a scalar load, and a vector load of an external buffer, is returned
\* as the input node, whatever its index.
C6_Passthrough ==
    (op.node = "Load" /\ (op.lanes = 1 \/ op.image)) => (expr = op /\ pc # "fault")

\* An external, misaligned, native-width dense load was left as it is.
C6_Witness ==
    /\ op.node = "Load" /\ op.image /\ op.ramp /\ op.lit /\ op.stride = 1 /\ op.lanes = N
    /\ reduce_expr_modulo(op.base, N, alignment_info).known
    /\ reduce_expr_modulo(op.base, N, alignment_info).lanes_off # 0
    /\ expr = op

\* The required alignment the target policy gives inside the loops of `frames`.
RECURSIVE Policy(_)
Policy(frames) ==
    IF frames = <<>> THEN natural_vector_size
    ELSE LET f == frames[Len(frames)]
         IN IF f.kind = "For" /\ f.api = "Hexagon"
            THEN (IF "HVX_128" \in target THEN 128 ELSE 64)
            ELSE Policy(Pop(frames))
HasHexagonLoop == \E i \in 1..Len(stack) : stack[i].kind = "For" /\ stack[i].api = "Hexagon"

\* C7: inside a Hexagon loop required_alignment is 128 with HVX_128 and 64
\* with HVX_64 (HVX_128 is tested first); with neither flag the pass fails;
\* other loops leave it; and each loop's exit restores the value of its entry.
C7_ScopedTargetPolicy ==
    /\ pc = "run" => required_alignment = Policy(stack)
    /\ \A i \in 1..Len(stack) :
          stack[i].kind = "For" => stack[i].saved = Policy(SubSeq(stack, 1, i - 1))
    /\ (pc = "run" /\ HasHexagonLoop) => target # {}
    /\ (HasHexagonLoop /\ target = {}) => pc \in {"unwind", "abort"}
    /\ pc \in {"unwind", "abort", "error"} => target = {}

\* A host loop nested in a Hexagon loop of an HVX_128 target with 16-byte
\* natural vectors.
C7_Witness ==
    /\ pc = "run" /\ Len(stack) = 2
    /\ stack[1].kind = "For" /\ stack[1].api = "Hexagon" /\ stack[1].saved = 16
    /\ stack[2].kind = "For" /\ stack[2].api = "Host" /\ stack[2].saved = 128
    /\ required_alignment = 128

\* A literal stride other than 1 or 2.
UnsupportedStride == RampLoadVisited /\ op.stride \notin {1, 2}

\* C8 as stated: a load with a literal stride other than 1 or 2 is returned
\* unchanged at every lane count.
C8_UnsupportedUnchanged == UnsupportedStride => expr = op

\* C8 as amended: it is returned unchanged when V = N, and when V < N and
\* the stride is 3 or above.
C8_UnsupportedUnchangedNative ==
    (UnsupportedStride /\ (op.lanes = N \/ (op.lanes < N /\ op.stride >= 3))) => expr = op

\* A narrow stride-3 load came back unchanged.
C8_Witness == UnsupportedStride /\ op.lanes < N /\ op.stride = 3 /\ expr = op

\* C9: when the internal error of the target policy reaches the caller, every
\* binding pushed by the enclosing lets has been popped.
C9_ContextReleasedOnError == pc = "error" => alignment_info = EmptyScope

\* C10: a native-width unit-stride load is rewritten exactly when the oracle
\* knows a non-zero lanes_off, into the window lanes_off .. lanes_off+N-1 of
\* the concatenation of the loads at base-lanes_off and base-lanes_off+N,
\* whose lane j holds element base + j; otherwise it is returned unchanged.
C10_DenseUnitStride ==
    (RampLoadVisited /\ op.stride = 1 /\ op.lanes = N) =>
        LET o == Oracle(op, op.base)
            low == AddConst(op.base, -o.lanes_off)
        IN IF o.known /\ o.lanes_off # 0
           THEN /\ expr = shuffle_vector(N, op.bytes,
                            concat_vectors(2 * N, op.bytes,
                                <<LoadLike(op, N, low, 1),
                                  LoadLike(op, N, AddConst(low, N), 1)>>),
                            [j \in 1..N |-> o.lanes_off + j - 1])
                /\ LaneElems(expr) = [j \in 1..N |-> AddConst(op.base, j - 1)]
           ELSE expr = op

\* A dense load of a param buffer, misaligned by a known offset, was rewritten.
C10_Witness ==
    /\ RampLoadVisited /\ op.stride = 1 /\ op.lanes = N /\ op.param # 0
    /\ Oracle(op, op.base).known /\ Oracle(op, op.base).lanes_off # 0
    /\ expr.node = "shuffle_vector"

\* C11: a native-width stride-2 load of a non-external buffer becomes the
\* shuffle of the concatenation of vec_a (the rewrite of the dense load at
\* base) and vec_b (the rewrite of the dense load at base_b); base_b is
\* base + N - 1 and b_shift is 1 exactly when a param is defined and the
\* oracle on the original ramp is unknown or known non-zero, else base + N
\* and 0; the indices are 2i for i < N/2 and 2i + b_shift from N/2 on; and
\* result lane i holds element base + 2i.
C11_Stride2Deinterleave ==
    (RampLoadVisited /\ op.stride = 2 /\ op.lanes = N) =>
        LET o == Oracle(op, op.base)
            b_shift == IF op.param # 0 /\ (~o.known \/ o.lanes_off # 0) THEN 1 ELSE 0
            base_b == AddConst(op.base, N - b_shift)
        IN /\ N >= 2
           /\ expr.node = "shuffle_vector" /\ expr.lanes = N
           /\ expr.indices = [j \in 1..N |-> IF j - 1 < N \div 2 THEN 2 * (j - 1)
                                             ELSE 2 * (j - 1) + b_shift]
           /\ expr.args[1].node = "concat_vectors" /\ Len(expr.args[1].args) = 2
           /\ LaneElems(expr.args[1].args[1]) = [j \in 1..N |-> AddConst(op.base, j - 1)]
           /\ LaneElems(expr.args[1].args[2]) = [j \in 1..N |-> AddConst(base_b, j - 1)]
           /\ LaneElems(expr) = [j \in 1..N |-> AddConst(op.base, 2 * (j - 1))]

\* A stride-2 load of a param buffer at a known offset of 3: base_b is
\* shifted, and vec_a was itself rewritten into two aligned loads.
C11_Witness ==
    /\ RampLoadVisited /\ op.stride = 2 /\ op.lanes = N /\ N = 4 /\ op.param # 0
    /\ Oracle(op, op.base).known /\ Oracle(op, op.base).lanes_off = 3
    /\ expr.node = "shuffle_vector" /\ expr.indices = <<0, 2, 5, 7>>
    /\ expr.args[1].args[1].node = "shuffle_vector"

\* The sum of the lane counts of a sequence of vectors.
RECURSIVE SumLanes(_)
SumLanes(vs) == IF vs = <<>> THEN 0 ELSE Head(vs).lanes + SumLanes(Tail(vs))

\* C12: an oversized load with a ramp of any literal stride s is cut into
\* ceil(V/N) slices, slice k with min(N, V - kN) lanes, base base + kN and
\* stride s; the lane counts sum to V; and the concatenation of the slices,
\* before any of them is rewritten, holds lane for lane the elements of the
\* input load: lane j is element base + j*s.
C12_OversizedSlicing ==
    (RampLoadVisited /\ op.lanes > N) =>
        LET slices == Slices(op, N)
            V == op.lanes
        IN /\ Len(slices) = (V + N - 1) \div N
           /\ \A k \in 1..Len(slices) :
                 /\ slices[k].lanes = (IF N < V - (k - 1) * N THEN N ELSE V - (k - 1) * N)
                 /\ slices[k].base = AddConst(op.base, (k - 1) * N)
                 /\ slices[k].stride = op.stride
           /\ SumLanes(slices) = V
           /\ LaneElems(concat_vectors(V, op.bytes, slices))
                 = [j \in 1..V |-> AddConst(op.base, (j - 1) * op.stride)]

\* The same restricted to unit stride, where the slices are contiguous.
C12_OversizedSlicingUnitStride ==
    op.stride = 1 => C12_OversizedSlicing

\* C13: a narrow load (V < N) with literal stride 1 or 2 of a non-external
\* buffer becomes shuffle_vector(W, 0, ..., V-1), where W has N lanes, reads
\* only the load's buffer, with the load's param, in native-width loads, and
\* holds in its lane j element base + j*s: W is the rewrite of the widened
\* load Load(Ramp(base, s, N)). The V selected lanes are the elements of the
\* input load, in order.
C13_NarrowPrefix ==
    (RampLoadVisited /\ op.lanes < N /\ op.stride \in {1, 2}) =>
        /\ expr.node = "shuffle_vector" /\ expr.lanes = op.lanes
        /\ expr.indices = [j \in 1..op.lanes |-> j - 1]
        /\ LET W == expr.args[1]
               loads == LoadsOf(W)
           IN /\ W.lanes = N
              /\ W.node = (IF op.stride = 1 /\ ~(Oracle(op, op.base).known
                                                 /\ Oracle(op, op.base).lanes_off # 0)
                           THEN "Load" ELSE "shuffle_vector")
              /\ \A i \in 1..Len(loads) :
                    loads[i] = LoadLike(op, N, loads[i].base, loads[i].stride)
              /\ LaneElems(W) = [j \in 1..N |-> AddConst(op.base, (j - 1) * op.stride)]
        /\ LaneElems(expr) = [j \in 1..op.lanes |-> AddConst(op.base, (j - 1) * op.stride)]

\* A narrow stride-2 load: the widened load was deinterleaved, the prefix of
\* the result selected.
C13_Witness ==
    /\ RampLoadVisited /\ op.lanes = 3 /\ N = 4 /\ op.stride = 2
    /\ expr.node = "shuffle_vector" /\ expr.indices = <<0, 1, 2>>
    /\ expr.args[1].node = "shuffle_vector" /\ Len(expr.args[1].indices) = 4

\* A vector load of a non-external buffer whose index is no Ramp, or a Ramp
\* whose stride is no integer literal, has been visited.
NonRewritableVisited ==
    op.node = "Load" /\ op.lanes > 1 /\ ~op.image /\ (~op.ramp \/ ~op.lit)

\* C14: a vector load of a non-external buffer whose index is not a Ramp, or
\* is a Ramp whose stride is not an integer literal, is returned unchanged
\* and the pass does not fault on it, at every lane count.
C14_NonRewritableUnchanged ==
    NonRewritableVisited => (expr = op /\ pc # "fault")

\* The same for a Ramp of non-literal stride at the native lane count, the
\* one shape on which no null pointer is read and nothing is sliced.
C14_NonLiteralStrideNativeUnchanged ==
    (NonRewritableVisited /\ op.ramp /\ op.lanes = N) => (expr = op /\ pc # "fault")

\* The depth of the recursion of the visit of op, followed five levels down.
RecursionDepth == mutate_depth(op, alignment_info, required_alignment, null_deref, 5)

\* C15: for every vector load visited, whatever its lane count, stride and
\* natural lane count N = required_alignment / bytes, N is at least 1 (the
\* slicing loop advances), the visit returned, and the calls of mutate it
\* makes on the nodes it builds nest at most five deep, whatever V is.
C15_Termination ==
    (op.node = "Load" /\ op.lanes > 1) =>
        /\ N >= 1
        /\ expr # NoExpr
        /\ RecursionDepth <= 5

\* An oversized stride-2 load whose last slice is narrow: the concatenation,
\* the slice, its widened load and the dense load vec_a nest five deep.
C15_Witness ==
    /\ RampLoadVisited /\ op.lanes > N /\ op.lanes % N > 1 /\ op.stride = 2
    /\ RecursionDepth = 5
    /\ expr.node = "concat_vectors"

\* Every shuffle_vector node of e, outermost first.
RECURSIVE ShufflesOf(_)
ShufflesOf(e) ==
    CASE e.node = "shuffle_vector" -> <<e>> \o ShufflesOf(e.args[1])
      [] e.node = "concat_vectors" ->
            Flatten([i \in 1..Len(e.args) |-> ShufflesOf(e.args[i])])
      [] OTHER -> <<>>

\* C16: every shuffle_vector of the output has as many indices as its type
\* has lanes, every index is at least 0 and below the lane count of the
\* source vector, and a source that is the concatenation of two vectors is
\* typed with the sum of their lanes.
C16_ShuffleWellFormed ==
    LET sh == ShufflesOf(expr)
    IN \A k \in 1..Len(sh) :
          LET src == sh[k].args[1]
          IN /\ Len(sh[k].indices) = sh[k].lanes
             /\ \A j \in 1..Len(sh[k].indices) :
                   sh[k].indices[j] >= 0 /\ sh[k].indices[j] < src.lanes
             /\ src.node = "concat_vectors" =>
                   (Len(src.args) = 2 /\ src.lanes = SumLanes(src.args))

\* A narrow stride-2 load of a param buffer: the output holds the prefix
\* shuffle, the deinterleave with shifted base_b reaching the last lane of
\* its source, and a dense window.
C16_Witness ==
    /\ RampLoadVisited /\ op.lanes < N /\ op.stride = 2 /\ op.param # 0
    /\ LET sh == ShufflesOf(expr)
       IN /\ Len(sh) >= 3
          /\ sh[1].args[1] = sh[2]
          /\ sh[2].indices[N] = 2 * N - 1
          /\ sh[2].args[1].args[1].node = "shuffle_vector"

\* The types of ValueTypes that are integer types.
IntegerTypes == {"Int32", "Int16"}
\* The lets being traversed whose value has a type of `types`, as a scope.
RECURSIVE ScopeOfTypes(_, _)
ScopeOfTypes(frames, types) ==
    IF frames = <<>> THEN EmptyScope
    ELSE LET f == frames[Len(frames)]
             below == ScopeOfTypes(Pop(frames), types)
         IN IF f.kind = "Let" /\ f.vtype \in types
            THEN ScopePush(below, f.name, f.mr) ELSE below
\* A dense probe load indexed by x was visited inside the bodies of the lets
\* in progress, at its native lane count.
ProbeVisitedInBody ==
    pc = "run" /\ op.node = "Load" /\ op.base.var = "x" /\ InStmt /\ op.lanes = N
\* The oracle on the visited load, with for x the summary the innermost let
\* of x with a value of a type of `types` recorded (none: no information).
OracleWithLets(types) ==
    reduce_expr_modulo(op.base, N, ScopeOfTypes(stack, types))

\* C17 as stated: the summary of every let whose value has an integer type,
\* of any width, is recorded under its name while the let is traversed, a
\* load in the body is rewritten by that fact, and lets of non-integer
\* values are not recorded.
C17_LetTrackingAnyInteger ==
    /\ pc = "run" => alignment_info = ScopeOfTypes(stack, IntegerTypes)
    /\ ProbeVisitedInBody =>
          (expr # op <=> (OracleWithLets(IntegerTypes).known
                          /\ OracleWithLets(IntegerTypes).lanes_off # 0))

\* C17 as amended: the same for the lets whose value has type Int(32); lets
\* of values of every other type, the other integer types included, are
\* neither recorded nor popped.
C17_LetTrackingInt32 ==
    /\ pc = "run" => alignment_info = ScopeOfTypes(stack, {"Int32"})
    /\ pc = "run" =>
          \A i \in 1..Len(stack) :
             (stack[i].kind = "Let" /\ stack[i].vtype # "Int32") =>
                 Len(alignment_info[stack[i].name]) =
                     Cardinality({j \in 1..Len(stack) :
                                     /\ stack[j].kind = "Let"
                                     /\ stack[j].name = stack[i].name
                                     /\ stack[j].vtype = "Int32"})
    /\ ProbeVisitedInBody =>
          (expr # op <=> (OracleWithLets({"Int32"}).known
                          /\ OracleWithLets({"Int32"}).lanes_off # 0))

\* Inside let y = <Int(16) value> in let x = 32*k (Int(32)): y is not
\* recorded, x is, and the load at x+3 is rewritten with lanes_off 3.
C17_Witness ==
    /\ ProbeVisitedInBody /\ Len(stack) = 2
    /\ stack[1].kind = "Let" /\ stack[1].name = "y" /\ stack[1].vtype = "Int16"
    /\ stack[2].kind = "Let" /\ stack[2].name = "x" /\ stack[2].vtype = "Int32"
    /\ stack[2].mr = [m |-> 32, r |-> 0]
    /\ alignment_info["y"] = <<>> /\ alignment_info["x"] = <<stack[2].mr>>
    /\ op.base.off = 3
    /\ expr.node = "shuffle_vector" /\ expr.indices = <<3, 4, 5, 6>>

\* The bindings the names refer to at the position of the traversal: a let
\* binds its name in its body, not in its own value, and the summary of a
\* bound value is that of the value under the bindings around the let.
RECURSIVE BindingScope(_)
BindingScope(frames) ==
    IF frames = <<>> THEN EmptyScope
    ELSE LET f == frames[Len(frames)]
             below == BindingScope(Pop(frames))
         IN IF f.kind = "Let" /\ f.phase = "body"
            THEN ScopePush(below, f.name, modulus_remainder(f.value, below))
            ELSE below
\* Every let in progress binds an Int(32) value.
AllLetsInt32 == \A i \in 1..Len(stack) : stack[i].kind = "Let" => stack[i].vtype = "Int32"
\* The summary a scope holds for a name (none: no information).
FactOf(scope, n) == IF ScopeContains(scope, n) THEN ScopeGet(scope, n) ELSE NoInfo

\* C18: when a load is visited, the summary the Alignment Context holds for
\* the name in its index is the summary of the binding the name refers to at
\* that position; inside the bound value of let x = v that is an enclosing
\* binding of x or none, not v.
C18_FactsMatchBinding ==
    (pc = "run" /\ op.node = "Load" /\ AllLetsInt32) =>
        FactOf(alignment_info, op.base.var) = FactOf(BindingScope(stack), op.base.var)

\* The same at the positions inside the bodies of all the lets in progress.
C18_FactsMatchBindingInBodies ==
    InStmt => C18_FactsMatchBinding

\* A native-width stride-2 load of a buffer with a param was rewritten with
\* base_b shifted left by one.
Stride2Shifted ==
    /\ RampLoadVisited /\ op.stride = 2 /\ op.lanes = N /\ op.param # 0
    /\ Stride2Bases(op, alignment_info, required_alignment).b_shift = 1
\* The largest element index ld reads, as an offset from its base variable.
LastIndex(ld) ==
    IF ld.stride >= 0 THEN ld.base.off + (ld.lanes - 1) * ld.stride ELSE ld.base.off

\* C19: when base_b was shifted, no Load of the final expression, vec_a and
\* vec_b having been rewritten by the dense case, reads an element beyond
\* base + 2(N-1), the last element of the input load.
C19_ShiftSurvivesRecursion ==
    Stride2Shifted =>
        LET loads == LoadsOf(expr)
        IN \A i \in 1..Len(loads) :
              /\ loads[i].base.var = op.base.var
              /\ LastIndex(loads[i]) <= op.base.off + 2 * (N - 1)

\* The same when the oracle does not know the alignment of the input ramp,
\* or knows lanes_off = 1: vec_b is then left as the dense load at base_b.
C19_ShiftSurvivesWhenVecBStays ==
    (Stride2Shifted /\ (~Oracle(op, op.base).known \/ Oracle(op, op.base).lanes_off = 1))
        => C19_ShiftSurvivesRecursion

====
